---- MODULE Spec2Model ----
(***************************************************************************)
(* Model of gnomesearchclient: the scatter/gather coordinator (Client) and *)
(* the round-to-round session wrapper (ClientStateful).                    *)
(*                                                                         *)
(* The coordinator is an async generator.  Its body runs only while the    *)
(* consumer is inside __anext__, so one action of the model is the code    *)
(* that runs between two suspension points of the consumer task:           *)
(*   created   the generator object exists, its body has not started       *)
(*   waiting   suspended inside asyncio.as_completed (queue.get)           *)
(*   yielded   suspended at a yield, the consumer holds a Result           *)
(*   abandoned suspended at a yield, the consumer has left the loop        *)
(*   cancelling  in the finally block, suspended at "await task"           *)
(*   finished  the generator has returned or raised                        *)
(***************************************************************************)
EXTENDS Naturals, Sequences, FiniteSets, TLC

\* ---------------------------------------------------------------- bounds
MaxIds == 1
MaxPriorIds == 2
MaxCalls == 2

\* ------------------------------------------------------------- universes
Prov == {"A", "B", "C", "D"}

\* The populations of Client.providers: any three of the providers at most.
Populations == SUBSET Prov \ {Prov}
Ids == {"i1"}
TermsSet == {<<"t1">>, <<"t1", "t2">>}

None == <<"None">>
NoError == "None"
ProviderError == "ProviderError"

\* The id lists a provider replies with, and those of a caller's prior Results.
IdLists == UNION {[1..n -> Ids] : n \in 0..MaxIds}
PriorIdLists == UNION {[1..n -> Ids] : n \in 0..MaxPriorIds}

\* Python truthiness of Result.results: None and [] are both falsy.
Truthy(x) == x # None /\ x # <<>>

\* Iteration orders of a Python set: any enumeration without repetition.
Perms(S) == {s \in [1..Cardinality(S) -> S] : \A i, j \in 1..Cardinality(S) : i # j => s[i] # s[j]}

SeqMap(F(_), s) == [i \in 1..Len(s) |-> F(s[i])]

Range(s) == {s[i] : i \in 1..Len(s)}

\* ------------------------------------------------------------ data model
Result(sp, q, res, err) ==
    [search_provider |-> sp, query |-> q, results |-> res, error |-> err]

succeeded(r) == r.error = NoError /\ r.results # None

\* asyncio.create_task(provider.<call>(...)): a pending task and its call.
Task(p, c, ids, q) ==
    [prov |-> p, call |-> c, ids |-> ids, terms |-> q, st |-> "pending", res |-> None]

ColdTask(p, q) == Task(p, "get_initial_result_set", None, q)
RefineTask(r, q) == Task(r.search_provider, "get_subsearch_result_set", r.results, q)

IsDone(t) == t.st \in {"done", "failed", "cancelled"}

VARIABLES
    providers,                \* Client.providers
    previous_results,         \* ClientStateful.previous_results
    unfinished_providers,     \* ClientStateful.unfinished_providers
    kind,                     \* which generator function was called
    terms,                    \* its search terms
    previous_search_results,  \* argument of Client.get_subsearch_result_sets
    additional_providers,     \* argument of Client.get_subsearch_result_sets
    pc,                       \* position of the coordinator generator
    tasks,                    \* the dict tasks, in insertion order
    completed,                \* as_completed's queue: task indices, completion order
    nyielded,                 \* how many of them were taken from the queue
    idx,                      \* position of the finally loop in tasks
    timer,                    \* asyncio.timeout: "off", "armed", "expired"
    outcome,                  \* how the generator ends (read it when pc = "finished")
    yielded,                  \* the Results handed to the consumer
    files,                    \* what each *.ini file read so far holds
    ini_paths,                \* the *.ini paths of one discovery run, in visiting order
    ini_pos,                  \* how many of them the loops have visited
    seen,                     \* the local set seen of _collect_search_providers
    collecting,               \* "none", "running", "returned", "raised"
    ninit,                    \* how often Client.init has run
    other                     \* the generator of the session's other consumer task

svars == <<providers, previous_results, unfinished_providers>>
avars == <<kind, terms, previous_search_results, additional_providers>>
cvars == <<pc, tasks, completed, nyielded, idx, timer, outcome, yielded>>
dvars == <<files, ini_paths, ini_pos, seen, collecting, ninit>>
vars == <<providers, previous_results, unfinished_providers, kind, terms,
          previous_search_results, additional_providers,
          pc, tasks, completed, nyielded, idx, timer, outcome, yielded,
          files, ini_paths, ini_pos, seen, collecting, ninit, other>>

\* ------------------------------------------------------------- dispatch
\* Client._get_initial_result_sets, the for loop: one cold-start per provider.
InitialTasks(order, q) == SeqMap(LAMBDA p : ColdTask(p, q), order)

\* Client.get_subsearch_result_sets, the three dispatch loops.
other_failed_providers(prev) ==
    SeqMap(LAMBDA r : r.search_provider, SelectSeq(prev, LAMBDA r : ~Truthy(r.results)))

\* Faulty variant: "if result.results is not None" -- an empty list is refined too.
SubsearchTasks_RefineEmpty(prev, q, addorder) ==
    SeqMap(LAMBDA r : RefineTask(r, q), SelectSeq(prev, LAMBDA r : r.results # None))
      \o SeqMap(LAMBDA p : ColdTask(p, q), addorder)
      \o SeqMap(LAMBDA p : ColdTask(p, q),
                SeqMap(LAMBDA r : r.search_provider, SelectSeq(prev, LAMBDA r : r.results = None)))

SubsearchTasks(prev, q, addorder) ==
    SeqMap(LAMBDA r : RefineTask(r, q), SelectSeq(prev, LAMBDA r : Truthy(r.results)))
      \o SeqMap(LAMBDA p : ColdTask(p, q), addorder)
      \o SeqMap(LAMBDA p : ColdTask(p, q), other_failed_providers(prev))

\* ---------------------------------------------------- coordinator steps
\* "result = await coroutine; yield Result(...)" and its except branch.
\* Faulty variant: a failed call's Result carries an empty list next to the error.
ResultOf_BothSet(t, q) ==
    IF t.st = "failed" THEN Result(t.prov, q, <<>>, ProviderError)
    ELSE Result(t.prov, q, t.res, NoError)

ResultOf(t, q) ==
    IF t.st = "failed" THEN Result(t.prov, q, None, ProviderError)
    ELSE Result(t.prov, q, t.res, NoError)

\* Faulty variant: the tasks are awaited in the order they were created.
NextResult_DispatchOrder == ResultOf(tasks[nyielded + 1], terms)

\* The Result the coordinator yields next: the head of as_completed's queue.
NextResult == ResultOf(tasks[completed[nyielded + 1]], terms)

\* The finally loop: skip the tasks that are done, cancel the first that is
\* not and suspend at "await task"; return (or re-raise) when none is left.
\* Faulty variant: the finally loop gives up after the first task.
NextLive_FirstOnly(ts, from) ==
    IF from > 1 \/ ts = <<>> \/ IsDone(ts[1]) THEN 0 ELSE 1

NextLive(ts, from) ==
    LET live == {i \in from..Len(ts) : ~IsDone(ts[i])}
    IN  IF live = {} THEN 0 ELSE CHOOSE i \in live : \A j \in live : i <= j

\* Faulty variant: every call that is not done is cancelled at once.
Finally_CancelAll(ts, from, out) ==
    LET i == NextLive(ts, from)
    IN  /\ outcome' = out
        /\ IF i = 0
           THEN /\ tasks' = ts
                /\ idx' = Len(ts) + 1
                /\ pc' = "finished"
           ELSE /\ tasks' = [j \in 1..Len(ts) |->
                                IF IsDone(ts[j]) THEN ts[j]
                                ELSE [ts[j] EXCEPT !.st = "cancelling"]]
                /\ idx' = i
                /\ pc' = "cancelling"

Finally(ts, from, out) ==
    LET i == NextLive(ts, from)
    IN  /\ outcome' = out
        /\ IF i = 0
           THEN /\ tasks' = ts
                /\ idx' = Len(ts) + 1
                /\ pc' = "finished"
           ELSE /\ tasks' = [ts EXCEPT ![i].st = "cancelling"]
                /\ idx' = i
                /\ pc' = "cancelling"

\* The generator body from its first line to its first suspension: the tasks
\* are created, asyncio.timeout is entered, as_completed waits.  create_task
\* does not run a task, so nothing has completed yet.  With no task at all
\* the async for ends at once and the generator returns.
Begin(ts) ==
    /\ tasks' = ts
    /\ completed' = <<>>
    /\ nyielded' = 0
    /\ idx' = 0
    /\ yielded' = <<>>
    /\ IF ts = <<>>
       THEN pc' = "finished" /\ timer' = "off" /\ outcome' = "stop"
       ELSE pc' = "waiting" /\ timer' = "armed" /\ outcome' = "none"

\* No generator exists: the locals of a finished one are gone.
NoGenerator(p) ==
    /\ pc' = p
    /\ tasks' = <<>>
    /\ completed' = <<>>
    /\ nyielded' = 0
    /\ idx' = 0
    /\ timer' = "off"
    /\ outcome' = "none"
    /\ yielded' = <<>>

\* Faulty variant: the function is a coroutine that dispatches when called.
Create_Eager(k, q) ==
    /\ pc \in {"idle", "finished"}
    /\ kind' = k
    /\ terms' = q
    /\ \E order \in Perms(providers) : Begin(InitialTasks(order, q))

\* Calling an async generator function only creates the generator object.
Create(k, q) ==
    /\ pc \in {"idle", "finished"}
    /\ kind' = k
    /\ terms' = q
    /\ NoGenerator("created")

\* Faulty variant: a provider's error is raised instead of being yielded.
TakeNext_Raise ==
    /\ nyielded < Len(completed)
    /\ nyielded' = nyielded + 1
    /\ IF tasks[completed[nyielded + 1]].st = "failed"
       THEN /\ yielded' = yielded
            /\ timer' = "off"
            /\ Finally(tasks, 1, "ProviderError")
            /\ UNCHANGED completed
       ELSE /\ yielded' = Append(yielded, NextResult)
            /\ pc' = "yielded"
            /\ UNCHANGED <<tasks, completed, idx, timer, outcome>>

\* The coordinator takes the next completed task from the queue and yields.
TakeNext ==
    /\ nyielded < Len(completed)
    /\ nyielded' = nyielded + 1
    /\ yielded' = Append(yielded, NextResult)
    /\ pc' = "yielded"
    /\ UNCHANGED <<tasks, completed, idx, timer, outcome>>

\* A task completed while the coordinator was suspended in as_completed.
CoWake == pc = "waiting" /\ TakeNext

\* The consumer asks for the next item and the queue is not empty.
CoResume == pc = "yielded" /\ nyielded < Len(tasks) /\ TakeNext

\* The consumer asks for the next item and the queue is empty.
CoSuspend ==
    /\ pc = "yielded"
    /\ nyielded < Len(tasks)
    /\ nyielded = Len(completed)
    /\ pc' = "waiting"
    /\ UNCHANGED <<tasks, completed, nyielded, idx, timer, outcome, yielded>>

\* The consumer asks for the next item and every task has been yielded:
\* as_completed is exhausted, the timeout is left, the finally block runs.
CoExhaust ==
    /\ pc = "yielded"
    /\ nyielded = Len(tasks)
    /\ timer' = IF timer = "armed" THEN "off" ELSE timer
    /\ Finally(tasks, 1, "stop")
    /\ UNCHANGED <<completed, nyielded, yielded>>

\* Faulty variant: a call that failed is dispatched again mid-round.
CoComplete_Retry(i, st, r) ==
    /\ pc \in {"waiting", "yielded", "abandoned", "cancelling"}
    /\ tasks[i].st = "pending"
    /\ tasks' = IF st = "failed"
                THEN Append([tasks EXCEPT ![i].st = st, ![i].res = r],
                            ColdTask(tasks[i].prov, tasks[i].terms))
                ELSE [tasks EXCEPT ![i].st = st, ![i].res = r]
    /\ completed' = Append(completed, i)
    /\ UNCHANGED <<pc, nyielded, idx, timer, outcome, yielded>>

\* A provider call ends with a value or with an error; the done callback of
\* as_completed queues the task.
CoComplete(i, st, r) ==
    /\ pc \in {"waiting", "yielded", "abandoned", "cancelling"}
    /\ tasks[i].st = "pending"
    /\ tasks' = [tasks EXCEPT ![i].st = st, ![i].res = r]
    /\ completed' = Append(completed, i)
    /\ UNCHANGED <<pc, nyielded, idx, timer, outcome, yielded>>

\* Faulty variant: the expired deadline does not interrupt the wait.
CoDeadlineWaiting_Ignored ==
    /\ pc = "waiting"
    /\ timer = "armed"
    /\ timer' = "expired"
    /\ UNCHANGED <<pc, tasks, completed, nyielded, idx, outcome, yielded>>

\* asyncio.timeout expires and cancels the consumer task.  Suspended in
\* as_completed, the CancelledError is raised in the coordinator, the timeout
\* turns it into TimeoutError, the finally block runs and TimeoutError goes
\* on to the consumer (no except clause catches it).
CoDeadlineWaiting ==
    /\ pc = "waiting"
    /\ timer = "armed"
    /\ timer' = "expired"
    /\ Finally(tasks, 1, "TimeoutError")
    /\ UNCHANGED <<completed, nyielded, yielded>>

\* Suspended at a yield, the cancelled task is awaiting something of the
\* consumer's: the CancelledError is raised in the consumer's loop body, which
\* leaves the generator behind at its yield.
CoDeadlineYielded ==
    /\ pc = "yielded"
    /\ timer = "armed"
    /\ timer' = "expired"
    /\ pc' = "abandoned"
    /\ UNCHANGED <<tasks, completed, nyielded, idx, outcome, yielded>>

\* The consumer leaves its async for (break, or an exception in its body).
CoBreak ==
    /\ pc = "yielded"
    /\ pc' = "abandoned"
    /\ UNCHANGED <<tasks, completed, nyielded, idx, timer, outcome, yielded>>

\* The abandoned generator is closed (aclose, by the consumer or by the event
\* loop's finalizer hook): GeneratorExit at the yield, then the finally block.
CoAclose ==
    /\ pc = "abandoned"
    /\ timer' = IF timer = "armed" THEN "off" ELSE timer
    /\ Finally(tasks, 1, "closed")
    /\ UNCHANGED <<completed, nyielded, yielded>>

\* The cancelled task acknowledges: "await task" raises CancelledError, which
\* is swallowed, and the finally loop goes on.
CoCancelAck ==
    /\ pc = "cancelling"
    /\ Finally([tasks EXCEPT ![idx].st = "cancelled"], idx + 1, outcome)
    /\ UNCHANGED <<completed, nyielded, timer, yielded>>

\* The cancelled task ends with an error of its own instead of CancelledError
\* (its coroutine answers the cancellation by raising something else).
\* "await task" raises that error, "except (CancelledError, TimeoutError)"
\* does not match, and the error leaves the finally block: the loop stops
\* where it is and the generator ends with that error.
CoCancelFail ==
    /\ pc = "cancelling"
    /\ tasks' = [tasks EXCEPT ![idx].st = "failed"]
    /\ completed' = Append(completed, idx)
    /\ pc' = "finished"
    /\ outcome' = ProviderError
    /\ UNCHANGED <<nyielded, idx, timer, yielded>>

\* Faulty variant: the cancellation is swallowed, the generator just ends.
CoCancelWaiting_Swallowed ==
    /\ pc = "waiting"
    /\ timer' = "off"
    /\ Finally(tasks, 1, "stop")
    /\ UNCHANGED <<completed, nyielded, yielded>>

\* The task that iterates the round is cancelled from outside while the
\* coordinator is suspended in as_completed: CancelledError is raised there,
\* asyncio.timeout lets it pass (its deadline has not expired) and disarms,
\* the finally block runs, and the CancelledError goes on to the caller.
CoCancelWaiting ==
    /\ pc = "waiting"
    /\ timer' = "off"
    /\ Finally(tasks, 1, "CancelledError")
    /\ UNCHANGED <<completed, nyielded, yielded>>

\* ------------------------------------------------------- ClientStateful
\* "self.previous_results.append(result)"
RecordResult(prev, r) == Append(prev, r)

\* Faulty variant: the provider of a recorded Result stays in the set.
DiscardProvider_Keep(unf, r) == unf

\* "self.unfinished_providers.discard(result.search_provider)"
DiscardProvider(unf, r) == unf \ {r.search_provider}

\* "self.unfinished_providers.update(self.client.providers)": no clear before.
InitialUnfinished(unf, provs) == unf \cup provs

\* Faulty variant: update() without the clear() before it.
SubsearchUnfinished_NoClear(unf, provs) == unf \cup provs

\* "self.unfinished_providers.clear(); ...update(self.client.providers)"
SubsearchUnfinished(unf, provs) == provs

Record(r) ==
    /\ previous_results' = RecordResult(previous_results, r)
    /\ unfinished_providers' = DiscardProvider(unfinished_providers, r)
    /\ UNCHANGED <<other, dvars, providers>>

get_initial_result_sets(q) ==
    /\ Create("get_initial_result_sets", q)
    /\ UNCHANGED <<other, dvars, svars, previous_search_results, additional_providers>>

get_subsearch_result_sets(q) ==
    /\ Create("get_subsearch_result_sets", q)
    /\ UNCHANGED <<other, dvars, svars, previous_search_results, additional_providers>>

\* First __anext__ of ClientStateful.get_initial_result_sets: the two reset
\* lines, then the coordinator's body up to its first suspension.
StartInitial ==
    /\ pc = "created"
    /\ kind = "get_initial_result_sets"
    /\ previous_results' = <<>>
    /\ unfinished_providers' = InitialUnfinished(unfinished_providers, providers)
    /\ \E order \in Perms(providers) : Begin(InitialTasks(order, terms))
    /\ UNCHANGED <<other, dvars, providers, avars>>

\* Faulty variant: the unfinished providers are not handed to the coordinator.
StartSubsearch_NoAdditional ==
    /\ pc = "created"
    /\ kind = "get_subsearch_result_sets"
    /\ unfinished_providers' = SubsearchUnfinished(unfinished_providers, providers)
    /\ previous_results' = <<>>
    /\ Begin(SubsearchTasks(previous_results', terms, <<>>))
    /\ UNCHANGED <<other, dvars, providers, avars>>

\* First __anext__ of ClientStateful.get_subsearch_result_sets.  Line 267 only
\* creates the coordinator's generator and hands it the list and the set
\* themselves, not copies; lines 270-272 then empty and refill those same
\* objects; the coordinator's body starts at the "async for" of line 273 and
\* reads its two arguments as they are by then.
StartSubsearch ==
    /\ pc = "created"
    /\ kind = "get_subsearch_result_sets"
    /\ unfinished_providers' = SubsearchUnfinished(unfinished_providers, providers)
    /\ previous_results' = <<>>
    /\ \E order \in Perms(SubsearchUnfinished(unfinished_providers, providers)) :
          Begin(SubsearchTasks(previous_results', terms, order))
    /\ UNCHANGED <<other, dvars, providers, avars>>

\* Lines 251-254 and 273-276: record the Result, then re-yield it.
StatefulWake == CoWake /\ Record(NextResult) /\ UNCHANGED avars

StatefulResume == CoResume /\ Record(NextResult) /\ UNCHANGED avars

\* ------------------------------------------- steps that leave the session
Suspend == CoSuspend /\ UNCHANGED <<other, dvars, svars, avars>>

Exhaust == CoExhaust /\ UNCHANGED <<other, dvars, svars, avars>>

Complete ==
    /\ \E i \in 1..Len(tasks) :
          \/ \E r \in IdLists : CoComplete(i, "done", r)
          \/ CoComplete(i, "failed", None)
    /\ UNCHANGED <<other, dvars, svars, avars>>

DeadlineWaiting == CoDeadlineWaiting /\ UNCHANGED <<other, dvars, svars, avars>>

DeadlineYielded == CoDeadlineYielded /\ UNCHANGED <<other, dvars, svars, avars>>

Break == CoBreak /\ UNCHANGED <<other, dvars, svars, avars>>

Aclose == CoAclose /\ UNCHANGED <<other, dvars, svars, avars>>

CancelAck == CoCancelAck /\ UNCHANGED <<other, dvars, svars, avars>>

ExternalCancel == CoCancelWaiting /\ UNCHANGED <<other, dvars, svars, avars>>

CancelFail == CoCancelFail /\ UNCHANGED <<other, dvars, svars, avars>>

\* Between rounds the population changes: discovery adds providers
\* (Client.init), the owner of the public set removes them.  The finished
\* generator of the last round is dropped, so that while pc = "finished"
\* providers is still the population the round started with.
SetProviders ==
    /\ pc \in {"idle", "finished"}
    /\ \E S \in Populations : S # providers /\ providers' = S
    /\ NoGenerator("idle")
    /\ kind' = "none"
    /\ terms' = <<>>
    /\ UNCHANGED <<other, dvars, previous_results, unfinished_providers, previous_search_results, additional_providers>>

\* --------------------------------------------------------------- Client
\* The prior Results a caller passes in: the Results of one earlier round for
\* PriorTerms, at most one per provider (the coordinator reads only their
\* search_provider and results, lines 173-180).
PriorTerms == <<"t1">>

\* The providers of the directly called Client.
ClientProv == {"A", "B"}

PriorLists ==
    UNION {{[i \in 1..Len(order) |-> Result(order[i], PriorTerms, out[order[i]],
                                             IF out[order[i]] = None THEN ProviderError ELSE NoError)] :
               order \in Perms(S), out \in [S -> PriorIdLists \cup {None}]} :
           S \in SUBSET ClientProv}

\* ------------------------------------------- the consumer of a session
\* ClientStateful.clear_previous_results: the list is emptied and nothing
\* else; the consumer can call it whenever it has control.
\* Faulty variant: the whole session is reset, not only the list.
clear_previous_results_All ==
    /\ pc \in {"idle", "created", "yielded", "abandoned", "finished"}
    /\ previous_results' = <<>>
    /\ unfinished_providers' = {}
    /\ UNCHANGED <<other, dvars, providers, avars, cvars>>

clear_previous_results ==
    /\ pc \in {"idle", "created", "yielded", "abandoned", "finished"}
    /\ previous_results' = <<>>
    /\ UNCHANGED <<other, dvars, providers, unfinished_providers, avars, cvars>>

\* ClientStateful.get_search_result_sets returns the generator of
\* get_subsearch_result_sets.
get_search_result_sets(q) == get_subsearch_result_sets(q)

\* client.providers is changed while the consumer has control, between
\* rounds or while it holds a Result; a generator that exists stays.
ChangeProviders ==
    /\ pc \in {"idle", "yielded", "finished"}
    /\ \E S \in SUBSET ClientProv : S # providers /\ providers' = S
    /\ UNCHANGED <<other, dvars, previous_results, unfinished_providers, avars, cvars>>

\* The Client keeps nothing between rounds (every call starts from the same
\* state), so one round per behaviour covers all of them.
ClientInitial(q) ==
    /\ pc = "idle"
    /\ Create("get_initial_result_sets", q)
    /\ previous_search_results' = <<>>
    /\ additional_providers' = {}
    /\ UNCHANGED <<other, dvars, svars>>

\* additional_providers = None behaves as the empty set (line 183).
ClientSubsearch(prev, q, add) ==
    /\ Len(prev) + Cardinality(add) <= MaxCalls
    /\ Create("get_subsearch_result_sets", q)
    /\ previous_search_results' = prev
    /\ additional_providers' = add
    /\ UNCHANGED <<other, dvars, svars>>

ClientSubsearchCall ==
    /\ pc = "idle"
    /\ \E add \in SUBSET ClientProv, q \in TermsSet :
          \E prev \in {l \in PriorLists : Len(l) + Cardinality(add) <= MaxCalls} :
             ClientSubsearch(prev, q, add)

ClientStartInitial ==
    /\ pc = "created"
    /\ kind = "get_initial_result_sets"
    /\ \E order \in Perms(providers) : Begin(InitialTasks(order, terms))
    /\ UNCHANGED <<other, dvars, svars, avars>>

\* Faulty variant: the dispatch loop pops the providers off the caller's set.
ClientStartSubsearch_Consuming ==
    /\ pc = "created"
    /\ kind = "get_subsearch_result_sets"
    /\ \E order \in Perms(additional_providers) :
          Begin(SubsearchTasks(previous_search_results, terms, order))
    /\ additional_providers' = {}
    /\ UNCHANGED <<other, dvars, svars, kind, terms, previous_search_results>>

ClientStartSubsearch ==
    /\ pc = "created"
    /\ kind = "get_subsearch_result_sets"
    /\ \E order \in Perms(additional_providers) :
          Begin(SubsearchTasks(previous_search_results, terms, order))
    /\ UNCHANGED <<other, dvars, svars, avars>>

ClientWake == CoWake /\ UNCHANGED <<other, dvars, svars, avars>>

ClientResume == CoResume /\ UNCHANGED <<other, dvars, svars, avars>>

\* ---------------------------------------------------- the legacy module
\* GnomeSearchProviderInteracter.get_subsearch_result_sets wraps every call
\* in asyncio.wait_for(..., timeout=timeout) and has no asyncio.timeout
\* around its "async for".  A task whose wait_for expired ends by raising
\* TimeoutError; TimedOut marks it.
TimedOut == <<"TimeoutError">>

\* The three dispatch loops (lines 300-322): the same routing as the package's.
LegacySubsearchTasks(prev, q, addorder) == SubsearchTasks(prev, q, addorder)

\* Lines 326-330: the awaited task's TimeoutError is an Exception like any
\* other, so the except branch yields it in a Result.
LegacyResultOf(t, q) ==
    IF t.st = "failed"
    THEN Result(t.prov, q, None, IF t.res = TimedOut THEN "TimeoutError" ELSE ProviderError)
    ELSE Result(t.prov, q, t.res, NoError)

LegacyNextResult == LegacyResultOf(tasks[completed[nyielded + 1]], terms)

\* The body up to its first suspension: no round-wide timer is armed.
LegacyBegin(ts) ==
    /\ tasks' = ts
    /\ completed' = <<>>
    /\ nyielded' = 0
    /\ idx' = 0
    /\ yielded' = <<>>
    /\ timer' = "off"
    /\ IF ts = <<>>
       THEN pc' = "finished" /\ outcome' = "stop"
       ELSE pc' = "waiting" /\ outcome' = "none"

LegacyTakeNext ==
    /\ nyielded < Len(completed)
    /\ nyielded' = nyielded + 1
    /\ yielded' = Append(yielded, LegacyNextResult)
    /\ pc' = "yielded"
    /\ UNCHANGED <<tasks, completed, idx, timer, outcome>>

\* GnomeSearchProviderInteracterStateful.get_subsearch_result_sets is an async
\* generator function: the call creates the generator.
Legacy_get_subsearch_result_sets(q) ==
    /\ Create("legacy_get_subsearch_result_sets", q)
    /\ UNCHANGED <<other, dvars, svars, previous_search_results, additional_providers>>

\* Its first __anext__: line 369 creates the coordinator's generator with the
\* list and the set themselves, lines 371-373 reset them, and the
\* coordinator's body starts at the "async for" of line 374.
LegacyStartSubsearch ==
    /\ pc = "created"
    /\ kind = "legacy_get_subsearch_result_sets"
    /\ unfinished_providers' = providers
    /\ previous_results' = <<>>
    /\ \E order \in Perms(providers) :
          LegacyBegin(LegacySubsearchTasks(previous_results', terms, order))
    /\ UNCHANGED <<other, dvars, providers, avars>>

\* Lines 374-377: record the Result, then re-yield it.
LegacyWake == pc = "waiting" /\ LegacyTakeNext /\ Record(LegacyNextResult) /\ UNCHANGED avars

LegacyResume ==
    /\ pc = "yielded"
    /\ nyielded < Len(tasks)
    /\ LegacyTakeNext
    /\ Record(LegacyNextResult)
    /\ UNCHANGED avars

\* The wait_for of one call expires: it cancels the provider call and the
\* task ends with TimeoutError; as_completed queues it like any completion.
LegacyTimeout ==
    /\ pc \in {"waiting", "yielded", "abandoned", "cancelling"}
    /\ \E i \in 1..Len(tasks) :
          /\ tasks[i].st = "pending"
          /\ tasks' = [tasks EXCEPT ![i].st = "failed", ![i].res = TimedOut]
          /\ completed' = Append(completed, i)
    /\ UNCHANGED <<pc, nyielded, idx, timer, outcome, yielded>>
    /\ UNCHANGED <<other, dvars, svars, avars>>

\* ------------------------------------------------------------ discovery
MaxVisits == 3
MaxInits == 2

IniPaths == {"d1/a.ini", "d1/b.ini", "d2/a.ini"}
DesktopIds == {"a.desktop", "b.desktop"}
BusNames == {"org.a"}
ObjectPaths == {"/a", "/b"}

\* The frozen dataclass ProviderInfo and the values it can take.
ProviderInfo(d, b, o) == [desktop_id |-> d, bus_name |-> b, object_path |-> o]
ProviderInfos == {ProviderInfo(d, b, o) : d \in DesktopIds, b \in BusNames, o \in ObjectPaths}

\* What a *.ini file can hold: a complete section, or one of the defects.
\* "unreadable" is a file open() fails on, "undecodable" one that is not valid
\* text in the locale's encoding, "bad_bus_name" and "bad_object_path" hold
\* a complete section whose BusName or ObjectPath is not a valid D-Bus name.
Defects == {"missing_section", "missing_key", "unparsable", "undecodable",
            "unreadable", "bad_bus_name", "bad_object_path"}
Unread == [kind |-> "unread"]
IniContents ==
    {[kind |-> "valid", info |-> t] : t \in ProviderInfos}
      \cup {[kind |-> k] : k \in Defects}

\* The body of the try block for one file: the exception it raises, if any.
\* ConfigParser.read skips a file it cannot open, so the section lookup
\* fails as for a missing section; it does not catch a decoding error;
\* get_proxy_object raises the bus client's InvalidBusNameError or
\* InvalidObjectPathError (subclasses of TypeError) for an invalid name.
ExceptionOf(c) ==
    CASE c.kind = "valid" -> NoError
      [] c.kind \in {"missing_section", "missing_key", "unreadable"} -> "KeyError"
      [] c.kind = "unparsable" -> "configparser.Error"
      [] c.kind = "undecodable" -> "UnicodeDecodeError"
      [] c.kind = "bad_bus_name" -> "InvalidBusNameError"
      [] c.kind = "bad_object_path" -> "InvalidObjectPathError"

\* "except (KeyError, configparser.Error, OSError)"
Caught(ex) == ex \in {"KeyError", "configparser.Error", "OSError"}

\* A Provider object: its identity and its provider_info.
Provider(oid, info) == [oid |-> oid, provider_info |-> info]

\* ProviderInfo.__eq__ and __hash__ as the dataclass generates them: the
\* tuples of the three fields are compared and hashed.
ProviderInfoEq(a, b) ==
    <<a.desktop_id, a.bus_name, a.object_path>> = <<b.desktop_id, b.bus_name, b.object_path>>

ProviderInfoHash(a) == <<"hash", a.desktop_id, a.bus_name, a.object_path>>

\* Provider.__eq__ (both operands are Providers here).
ProviderEq(x, y) == ProviderInfoEq(x.provider_info, y.provider_info)

\* Faulty variant: no __hash__ of its own, the object's identity is hashed.
ProviderHash_Identity(x) == <<"hash", x.oid>>

\* Provider.__hash__
ProviderHash(x) == ProviderInfoHash(x.provider_info)

\* set.add: the element is inserted unless the set holds one with the same
\* hash that compares equal.
SetAdd(S, x) ==
    IF \E y \in S : ProviderHash(y) = ProviderHash(x) /\ ProviderEq(y, x)
    THEN S
    ELSE S \cup {x}

NoDiscovery ==
    /\ files = [p \in IniPaths |-> Unread]
    /\ ini_paths = <<>>
    /\ ini_pos = 0
    /\ seen = {}
    /\ collecting = "none"
    /\ ninit = 0

\* Client.init calls _collect_search_providers, which starts with an empty
\* seen; the two for loops will visit the *.ini paths the directories of
\* XDG_DATA_DIRS list (a path comes twice when its directory is named
\* twice); the listing is taken not to change between two runs.
collect_search_providers ==
    /\ collecting \in {"none", "returned", "raised"}
    /\ ninit < MaxInits
    /\ ninit' = ninit + 1
    /\ \E paths \in (IF ninit = 0
                     THEN UNION {[1..n -> IniPaths] : n \in 0..MaxVisits}
                     ELSE {ini_paths}) : ini_paths' = paths
    /\ ini_pos' = 0
    /\ seen' = {}
    /\ collecting' = "running"
    /\ UNCHANGED <<files, svars, avars, cvars, other>>

\* "if ini_path in seen: continue"
CollectSkip ==
    /\ collecting = "running"
    /\ ini_pos < Len(ini_paths)
    /\ ini_paths[ini_pos + 1] \in seen
    /\ ini_pos' = ini_pos + 1
    /\ UNCHANGED <<files, ini_paths, seen, collecting, ninit, svars, avars, cvars, other>>

\* One pass of the loop body for a path not seen yet: the try block either
\* adds a Provider, or raises something the except clause catches (the
\* entry is skipped), or raises something else, which leaves the loops and
\* _collect_search_providers.
CollectEntry ==
    /\ collecting = "running"
    /\ ini_pos < Len(ini_paths)
    /\ LET p == ini_paths[ini_pos + 1]
       IN  /\ p \notin seen
           /\ seen' = seen \cup {p}
           /\ \E c \in (IF files[p] = Unread THEN IniContents ELSE {files[p]}) :
                 /\ files' = [files EXCEPT ![p] = c]
                 /\ IF ExceptionOf(c) = NoError
                    THEN /\ providers' = SetAdd(providers, Provider(<<ninit, ini_pos + 1>>, c.info))
                         /\ collecting' = collecting
                    ELSE /\ providers' = providers
                         /\ collecting' = IF Caught(ExceptionOf(c)) THEN collecting ELSE "raised"
    /\ ini_pos' = ini_pos + 1
    /\ UNCHANGED <<ini_paths, ninit, previous_results, unfinished_providers, avars, cvars, other>>

\* The loops are exhausted: _collect_search_providers returns.
CollectReturn ==
    /\ collecting = "running"
    /\ ini_pos = Len(ini_paths)
    /\ collecting' = "returned"
    /\ UNCHANGED <<files, ini_paths, ini_pos, seen, ninit, svars, avars, cvars, other>>

\* The locals of a generator, as one value (what a suspended task keeps).
Generator ==
    [kind |-> kind, terms |-> terms, pc |-> pc, tasks |-> tasks,
     completed |-> completed, nyielded |-> nyielded, idx |-> idx,
     timer |-> timer, outcome |-> outcome, yielded |-> yielded]

\* A task that has not called the session yet.
NoOther ==
    other = [kind |-> "none", terms |-> <<>>, pc |-> "idle", tasks |-> <<>>,
             completed |-> <<>>, nyielded |-> 0, idx |-> 0,
             timer |-> "off", outcome |-> "none", yielded |-> <<>>]

\* The event loop runs the session's other task: what the running task's
\* generator holds is set aside and the other task's generator is the one
\* that takes the next steps.  Both use the same ClientStateful.  A task
\* gives up control only where it is suspended: before it has started, inside
\* as_completed, at "await task", or at its end (the loop body of the example
\* GUI awaits nothing, so never while it holds a Result).
Switch ==
    /\ pc \in {"idle", "created", "waiting", "cancelling", "finished"}
    /\ other' = Generator
    /\ kind' = other.kind
    /\ terms' = other.terms
    /\ pc' = other.pc
    /\ tasks' = other.tasks
    /\ completed' = other.completed
    /\ nyielded' = other.nyielded
    /\ idx' = other.idx
    /\ timer' = other.timer
    /\ outcome' = other.outcome
    /\ yielded' = other.yielded
    /\ UNCHANGED <<dvars, svars, previous_search_results, additional_providers>>

\* ------------------------------------------------------- specifications
Init ==
    /\ providers = {}
    /\ previous_results = <<>>
    /\ unfinished_providers = {}
    /\ kind = "none"
    /\ terms = <<>>
    /\ previous_search_results = <<>>
    /\ additional_providers = {}
    /\ pc = "idle"
    /\ tasks = <<>>
    /\ completed = <<>>
    /\ nyielded = 0
    /\ idx = 0
    /\ timer = "off"
    /\ outcome = "none"
    /\ yielded = <<>>
    /\ NoDiscovery
    /\ NoOther

\* A ClientStateful session driven by one consumer.
Next ==
    \/ \E q \in TermsSet : get_initial_result_sets(q)
    \/ \E q \in TermsSet : get_subsearch_result_sets(q)
    \/ StartInitial
    \/ StartSubsearch
    \/ StatefulWake
    \/ StatefulResume
    \/ Suspend
    \/ Exhaust
    \/ Complete
    \/ DeadlineWaiting
    \/ DeadlineYielded
    \/ Break
    \/ Aclose
    \/ CancelAck
    \/ SetProviders

Spec == Init /\ [][Next]_vars

\* The stateless Client called directly with prior Results of the caller's.
NextClient ==
    \/ \E q \in TermsSet : ClientInitial(q)
    \/ ClientSubsearchCall
    \/ ClientStartInitial
    \/ ClientStartSubsearch
    \/ ClientWake
    \/ ClientResume
    \/ Suspend
    \/ Exhaust
    \/ Complete
    \/ DeadlineWaiting
    \/ DeadlineYielded
    \/ Break
    \/ Aclose
    \/ CancelAck
    \/ ExternalCancel

\* Client.providers after discovery found every provider.
InitClient ==
    /\ providers = ClientProv
    /\ previous_results = <<>>
    /\ unfinished_providers = {}
    /\ kind = "none"
    /\ terms = <<>>
    /\ previous_search_results = <<>>
    /\ additional_providers = {}
    /\ pc = "idle"
    /\ tasks = <<>>
    /\ completed = <<>>
    /\ nyielded = 0
    /\ idx = 0
    /\ timer = "off"
    /\ outcome = "none"
    /\ yielded = <<>>
    /\ NoDiscovery
    /\ NoOther

SpecClient == InitClient /\ [][NextClient]_vars

\* What the scheduling guarantees.  A consumer that keeps reading calls
\* __anext__ again, and the event loop resumes the coordinator when a call
\* has completed; the timer of asyncio.timeout fires; a generator left behind
\* at a yield is closed (the loop's asyncgen finalizer hook, or
\* shutdown_asyncgens); a cancelled call ends.  Nothing makes a provider
\* reply, and nothing makes the consumer break or be cancelled.
Reading ==
    \/ ClientStartInitial
    \/ ClientStartSubsearch
    \/ ClientWake
    \/ ClientResume
    \/ Suspend
    \/ Exhaust

Deadline == DeadlineWaiting \/ DeadlineYielded

SpecClientFair ==
    /\ SpecClient
    /\ WF_vars(Reading)
    /\ WF_vars(Deadline)
    /\ WF_vars(Aclose)
    /\ WF_vars(CancelAck)

\* The stateless Client over providers whose calls may answer a cancellation
\* with an error of their own.
NextTeardown ==
    \/ NextClient
    \/ CancelFail

SpecTeardown == InitClient /\ [][NextTeardown]_vars

\* A ClientStateful session over at most two providers whose consumer also
\* uses clear_previous_results and the alias get_search_result_sets, and
\* touches the session while it holds a Result.
NextConsumer ==
    \/ \E q \in TermsSet : get_initial_result_sets(q)
    \/ \E q \in TermsSet : get_subsearch_result_sets(q)
    \/ \E q \in TermsSet : get_search_result_sets(q)
    \/ clear_previous_results
    \/ ChangeProviders
    \/ StartInitial
    \/ StartSubsearch
    \/ StatefulWake
    \/ StatefulResume
    \/ Suspend
    \/ Exhaust
    \/ Complete
    \/ DeadlineWaiting
    \/ DeadlineYielded
    \/ Break
    \/ Aclose
    \/ CancelAck

SpecConsumer == Init /\ [][NextConsumer]_vars

\* Refine rounds of a legacy GnomeSearchProviderInteracterStateful session.
NextLegacy ==
    \/ \E q \in TermsSet : Legacy_get_subsearch_result_sets(q)
    \/ LegacyStartSubsearch
    \/ LegacyWake
    \/ LegacyResume
    \/ LegacyTimeout
    \/ Suspend
    \/ Exhaust
    \/ Complete
    \/ Break
    \/ Aclose
    \/ CancelAck

SpecLegacy == InitClient /\ [][NextLegacy]_vars

\* One ClientStateful shared by two tasks, each started by a search
\* activation of the example GUI (SearchAllPage._on_search_clicked): a task
\* calls get_subsearch_result_sets and reads the round to its end.
NextShared ==
    \/ \E q \in TermsSet : get_subsearch_result_sets(q)
    \/ StartSubsearch
    \/ StatefulWake
    \/ StatefulResume
    \/ Suspend
    \/ Exhaust
    \/ Complete
    \/ DeadlineWaiting
    \/ CancelAck
    \/ Switch

SpecShared == InitClient /\ [][NextShared]_vars

\* Discovery on a Client that runs no round.
NextDiscovery ==
    \/ collect_search_providers
    \/ CollectSkip
    \/ CollectEntry
    \/ CollectReturn

SpecDiscovery == Init /\ [][NextDiscovery]_vars

\* ================================================================ claims
CallsTo(ts, p) == {ts[i].call : i \in {j \in 1..Len(ts) : ts[j].prov = p}}
TasksOf(ts, p) == {j \in 1..Len(ts) : ts[j].prov = p}
ResultsOf(rs, p) == {i \in 1..Len(rs) : rs[i].search_provider = p}
InRound == pc \in {"waiting", "yielded", "abandoned", "cancelling", "finished"}
Routing(ts) == [i \in 1..Len(ts) |-> <<ts[i].prov, ts[i].call, ts[i].ids, ts[i].terms>>]

\* C1: in a ClientStateful refine round, a current provider that had a
\* non-empty id list in the previous round's previous_results (and was not
\* unfinished) is called with get_subsearch_result_set only, and a current
\* provider that had an empty list, an error or no Result is called with
\* get_initial_result_set only -- the previous round's state being the one
\* the session held when the refine round's body began.
C1_RefineRoutingFromPreviousRound ==
    [][(pc = "created" /\ kind = "get_subsearch_result_sets" /\ pc' # "created") =>
         \A p \in providers :
            IF /\ p \notin unfinished_providers
               /\ \E i \in ResultsOf(previous_results, p) : Truthy(previous_results[i].results)
            THEN CallsTo(tasks', p) = {"get_subsearch_result_set"}
            ELSE CallsTo(tasks', p) = {"get_initial_result_set"}]_vars

C3_Partition ==
    pc = "finished" =>
        \A p \in providers :
            \/ /\ Cardinality(ResultsOf(previous_results, p)) = 1
               /\ p \notin unfinished_providers
            \/ /\ ResultsOf(previous_results, p) = {}
               /\ p \in unfinished_providers

C3_Witness ==
    /\ pc = "finished"
    /\ outcome = "TimeoutError"
    /\ kind = "get_subsearch_result_sets"
    /\ Len(previous_results) = 2
    /\ Cardinality(unfinished_providers \cap providers) = 1

\* C4: a round over three providers in which two calls complete and are
\* delivered before the deadline and the third never completes has yielded
\* the two Results in completion order, has cancelled the third call without
\* any Result for it, and ends with unfinished_providers = {third provider}.
C4_DeadlineScenario ==
    (/\ pc = "finished"
     /\ outcome = "TimeoutError"
     /\ Cardinality(providers) = 3
     /\ Len(completed) = 2
     /\ nyielded = 2) =>
        LET c == CHOOSE i \in 1..Len(tasks) : i \notin Range(completed)
        IN  /\ yielded = <<ResultOf(tasks[completed[1]], terms),
                           ResultOf(tasks[completed[2]], terms)>>
            /\ tasks[c].st = "cancelled"
            /\ ResultsOf(yielded, tasks[c].prov) = {}
            /\ ResultsOf(previous_results, tasks[c].prov) = {}
            /\ unfinished_providers = {tasks[c].prov}

\* C5: a round that the deadline ended just ends for the consumer: the
\* generator never finishes by raising TimeoutError.
C5_DeadlineNotRaised == pc = "finished" => outcome # "TimeoutError"

\* C6: when the coordinator takes a failed call from the queue it yields a
\* Result carrying the error for that provider and stays inside the round:
\* nothing is raised, the generator does not end, and no other call is
\* touched.
C6_FailureIsolation ==
    [][(/\ nyielded' = nyielded + 1
        /\ tasks[completed[nyielded + 1]].st = "failed") =>
          /\ pc' = "yielded"
          /\ yielded' = Append(yielded, Result(tasks[completed[nyielded + 1]].prov, terms,
                                               None, ProviderError))
          /\ tasks' = tasks
          /\ outcome' = "none"
          /\ timer' = timer]_vars

C6_Witness ==
    /\ Len(yielded) >= 2
    /\ yielded[1].error = ProviderError
    /\ yielded[2].error = NoError
    /\ Truthy(yielded[2].results)
    /\ \E i \in 1..Len(tasks) : tasks[i].st = "pending"

\* C7: the k-th Result yielded in a round is the Result of the k-th call to
\* complete, whatever the order in which the calls were created.
C7_CompletionOrder ==
    /\ Len(yielded) = nyielded
    /\ nyielded <= Len(completed)
    /\ \A k \in 1..Len(yielded) : yielded[k] = ResultOf(tasks[completed[k]], terms)

C7_Witness ==
    /\ Len(yielded) = 2
    /\ completed[1] > completed[2]
    /\ yielded[1].search_provider = tasks[completed[1]].prov
    /\ yielded[2].search_provider = tasks[completed[2]].prov

\* C8: Client.get_subsearch_result_sets creates, for every prior Result with a
\* non-empty id list, a get_subsearch_result_set call to its provider with
\* exactly those ids and the current terms, and for every prior Result with an
\* error or an empty list a get_initial_result_set call with the current
\* terms and no get_subsearch_result_set call.
C8_ClientRefineRouting ==
    (InRound /\ kind = "get_subsearch_result_sets") =>
        \A i \in 1..Len(previous_search_results) :
            LET r == previous_search_results[i]
                p == r.search_provider
            IN  IF Truthy(r.results)
                THEN \E j \in TasksOf(tasks, p) :
                        /\ tasks[j].call = "get_subsearch_result_set"
                        /\ tasks[j].ids = r.results
                        /\ tasks[j].terms = terms
                ELSE /\ \E j \in TasksOf(tasks, p) :
                           /\ tasks[j].call = "get_initial_result_set"
                           /\ tasks[j].terms = terms
                     /\ "get_subsearch_result_set" \notin CallsTo(tasks, p)

C8_Witness ==
    /\ InRound
    /\ kind = "get_subsearch_result_sets"
    /\ terms # PriorTerms
    /\ Len(previous_search_results) = 2
    /\ Len(previous_search_results[1].results) = 2
    /\ previous_search_results[2].error = ProviderError
    /\ CallsTo(tasks, previous_search_results[1].search_provider) = {"get_subsearch_result_set"}
    /\ CallsTo(tasks, previous_search_results[2].search_provider) = {"get_initial_result_set"}

\* C9: in a round of Client.get_subsearch_result_sets no provider is called
\* more than once or yields more than one Result, and a provider in
\* additional_providers is called with get_initial_result_set.
C9_OneCallPerProvider ==
    (InRound /\ kind = "get_subsearch_result_sets") =>
        \A p \in ClientProv :
            /\ Cardinality(TasksOf(tasks, p)) <= 1
            /\ Cardinality(ResultsOf(yielded, p)) <= 1
            /\ p \in additional_providers => CallsTo(tasks, p) = {"get_initial_result_set"}

\* C10: when the body of ClientStateful.get_initial_result_sets has started
\* and no Result of the round is recorded yet, previous_results is empty and
\* unfinished_providers is exactly client.providers.
C10_InitialReset ==
    (InRound /\ kind = "get_initial_result_sets" /\ nyielded = 0) =>
        /\ previous_results = <<>>
        /\ unfinished_providers = providers

C14_OneResultPerCompletedCall ==
    [][/\ (timer = "armed" /\ timer' = "expired") =>
             /\ Len(yielded) = Len(completed)
             /\ \A k \in 1..Len(yielded) : yielded[k] = ResultOf(tasks[completed[k]], terms)
       /\ (timer = "expired" /\ timer' = "expired") => yielded' = yielded]_vars

C13_AliasEquivalence ==
    [][(/\ pc = "created"
        /\ kind = "get_subsearch_result_sets"
        /\ previous_results = <<>>
        /\ pc' # "created") =>
          /\ \E order \in Perms(providers) : tasks' = InitialTasks(order, terms)
          /\ previous_results' = <<>>
          /\ unfinished_providers' = InitialUnfinished(unfinished_providers, providers)]_vars

\* C20: the calls of a round and their routing (provider, cold-start or
\* refine, ids, terms) are fixed by the step that starts the generator's
\* body, which yields nothing; from then on until the generator has finished
\* no call is added and no routing changes, whatever the consumer does to
\* previous_results or client.providers while it holds a Result.
C20_DispatchBeforeYield ==
    /\ [][(pc = "created") => yielded' = <<>>]_vars
    /\ [][(pc \in {"waiting", "yielded", "abandoned", "cancelling"}) =>
             Routing(tasks') = Routing(tasks)]_vars
    /\ [](pc = "created" => (tasks = <<>> /\ yielded = <<>>))

\* The consumer holds the first Result of a two-call round, has emptied
\* previous_results and changed client.providers; the other call is pending.
C20_Witness ==
    /\ pc = "yielded"
    /\ nyielded = 1
    /\ Len(tasks) = 2
    /\ \E i \in 1..Len(tasks) : tasks[i].st = "pending"
    /\ previous_results = <<>>
    /\ providers # {tasks[i].prov : i \in 1..Len(tasks)}

\* C16: in a ClientStateful round, a provider that is not in client.providers
\* (it was removed before the round) has no call, and once the round has
\* finished it has no Result in previous_results and is not in
\* unfinished_providers.
C16_RemovedProviderLeavesSession ==
    InRound =>
        \A p \in Prov \ providers :
            /\ TasksOf(tasks, p) = {}
            /\ pc = "finished" =>
                  /\ ResultsOf(previous_results, p) = {}
                  /\ p \notin unfinished_providers

\* C19: at every point of a ClientStateful refine round whose body has
\* started, previous_results is exactly the Results yielded in this round so
\* far and unfinished_providers is exactly the current providers that have
\* not yielded yet; so both were reset before the first Result was recorded.
C19_RefineResetOrdering ==
    (InRound /\ kind = "get_subsearch_result_sets") =>
        /\ previous_results = yielded
        /\ unfinished_providers =
              providers \ {yielded[k].search_provider : k \in 1..Len(yielded)}

\* A refine round over three providers that the deadline ended after one
\* Result; the two other providers are unfinished.
C19_Witness ==
    /\ kind = "get_subsearch_result_sets"
    /\ pc = "finished"
    /\ outcome = "TimeoutError"
    /\ Cardinality(providers) = 3
    /\ Len(previous_results) = 1
    /\ Cardinality(unfinished_providers) = 2

\* C17: discovery never ends by raising, and when it has returned every
\* valid entry it visited has its provider in Client.providers.
C17_DiscoveryRobust ==
    /\ collecting # "raised"
    /\ collecting = "returned" =>
          \A i \in 1..Len(ini_paths) :
             files[ini_paths[i]].kind = "valid" =>
                \E x \in providers : x.provider_info = files[ini_paths[i]].info

\* C18: two Providers are equal exactly when their three fields are equal,
\* equal Providers hash equally, and Client.providers never holds two
\* Providers with the same three fields.
SampleProviders ==
    {Provider(<<n, 1>>, t) : n \in {1, 2}, t \in ProviderInfos}

C18_ProviderIdentity ==
    /\ \A x, y \in SampleProviders \cup providers :
          /\ ProviderEq(x, y) <=> /\ x.provider_info.desktop_id = y.provider_info.desktop_id
                                  /\ x.provider_info.bus_name = y.provider_info.bus_name
                                  /\ x.provider_info.object_path = y.provider_info.object_path
          /\ ProviderEq(x, y) => ProviderHash(x) = ProviderHash(y)
    /\ \A x, y \in providers : x.provider_info = y.provider_info => x = y

\* The same provider was found in two directories and again by a second
\* run of init, and Client.providers holds it once.
C18_Witness ==
    /\ ninit = 2
    /\ collecting = "returned"
    /\ Cardinality(providers) = 1
    /\ \E p, q \in seen :
          /\ p # q
          /\ files[p].kind = "valid"
          /\ files[q] = files[p]

\* C22: when the deadline expires while the coordinator is suspended at a
\* yield, the consumer is not interrupted: it still holds its Result and goes
\* on with its loop body (the generator is not left behind at its yield).
C22_DeadlineSparesConsumer ==
    [][(pc = "yielded" /\ timer = "armed" /\ timer' = "expired") => pc' = "yielded"]_vars

\* C24: once the consumer of a ClientStateful round has stopped after k
\* Results (it left the loop, and the generator was closed or not yet),
\* previous_results holds exactly the k Results it received and
\* unfinished_providers holds exactly the current providers that yielded
\* none, whatever became of their calls.
C24_EarlyExitBookkeeping ==
    (pc = "abandoned" \/ (pc \in {"cancelling", "finished"} /\ outcome = "closed")) =>
        /\ previous_results = yielded
        /\ unfinished_providers =
              providers \ {yielded[k].search_provider : k \in 1..Len(yielded)}

\* C25: the teardown cancels one call at a time, in dispatch order, and waits
\* for it before it looks at the next (every earlier call is over, no other
\* call is being cancelled); a call that completes meanwhile is a later one,
\* is never cancelled and nothing is yielded or recorded for it; when the
\* generator has ended, every call that completed without being delivered
\* still counts as completed, has no Result, and its provider is in
\* unfinished_providers.
C25_CompletedDuringTeardownDropped ==
    /\ [](/\ pc = "cancelling" =>
                /\ idx \in 1..Len(tasks)
                /\ tasks[idx].st = "cancelling"
                /\ \A j \in 1..(idx - 1) : IsDone(tasks[j])
          /\ \A j \in 1..Len(tasks) :
                tasks[j].st = "cancelling" => (pc = "cancelling" /\ j = idx)
          /\ pc = "finished" =>
                \A k \in (nyielded + 1)..Len(completed) :
                   /\ tasks[completed[k]].st \in {"done", "failed"}
                   /\ tasks[completed[k]].prov \in unfinished_providers
                   /\ ResultsOf(previous_results, tasks[completed[k]].prov) = {})
    /\ [][pc = "cancelling" =>
             /\ yielded' = yielded
             /\ previous_results' = previous_results
             /\ unfinished_providers' = unfinished_providers
             /\ \A i \in 1..Len(tasks) :
                   (tasks[i].st = "pending" /\ tasks'[i].st # "pending") =>
                       /\ i > idx
                       /\ \/ tasks'[i].st \in {"done", "failed"}
                          \/ tasks'[i].st = "cancelling" /\ idx' = i
             /\ \A i \in 1..Len(tasks) :
                   tasks[i].st \in {"done", "failed"} => tasks'[i] = tasks[i]]_vars

C25_Witness ==
    /\ pc = "finished"
    /\ outcome = "TimeoutError"
    /\ Len(tasks) = 3
    /\ nyielded = 0
    /\ tasks[1].st = "cancelled"
    /\ tasks[2].st = "done"
    /\ tasks[3].st = "cancelled"
    /\ tasks[2].prov \in unfinished_providers
    /\ previous_results = <<>>

\* C26: calling get_initial_result_sets, get_subsearch_result_sets or
\* get_search_result_sets of a session only creates the generator: the call
\* itself dispatches nothing and leaves previous_results, unfinished_providers
\* and client.providers as they were, and as long as no item has been
\* requested no call exists and nothing has been yielded; the reset and the
\* dispatch happen together, in the step that serves the first request.
C26_LazyStart ==
    /\ [][(pc \in {"idle", "finished"} /\ pc' # pc) =>
             /\ pc' = "created"
             /\ tasks' = <<>>
             /\ UNCHANGED <<providers, previous_results, unfinished_providers>>]_vars
    /\ [][(pc = "created" /\ pc' = "created") =>
             /\ tasks' = <<>>
             /\ UNCHANGED unfinished_providers
             /\ previous_results' \in {previous_results, <<>>}]_vars
    /\ [][(pc = "created" /\ pc' \notin {"created", "idle"}) =>
             /\ previous_results' = <<>>
             /\ providers \subseteq unfinished_providers'
             /\ {tasks'[i].prov : i \in 1..Len(tasks')} = providers]_vars

C26_Witness ==
    /\ pc = "created"
    /\ kind = "get_subsearch_result_sets"
    /\ providers # {}
    /\ previous_results # <<>>
    /\ unfinished_providers # {}
    /\ tasks = <<>>

\* C27: a round of the stateless Client never changes Client.providers, and
\* from the call on never changes the previous_search_results list and the
\* additional_providers set it was given, however the round ends; it does not
\* touch the session state of a ClientStateful either.
C27_StatelessCoordinator ==
    [][/\ providers' = providers
       /\ previous_results' = previous_results
       /\ unfinished_providers' = unfinished_providers
       /\ pc # "idle" =>
             /\ previous_search_results' = previous_search_results
             /\ additional_providers' = additional_providers]_vars

C27_Witness ==
    /\ pc = "finished"
    /\ outcome \in {"TimeoutError", "closed"}
    /\ kind = "get_subsearch_result_sets"
    /\ Len(previous_search_results) = 1
    /\ Cardinality(additional_providers) = 1
    /\ nyielded = 1
    /\ \E i \in 1..Len(tasks) : tasks[i].st = "cancelled"

\* C28: every Result yielded has either a list of ids and no error, or an
\* error and no results; its search_provider is the provider of the call
\* that produced it, its query is the round's search terms, and succeeded is
\* true exactly when it has no error.
C28_TaggedOutcome ==
    \A k \in 1..Len(yielded) :
        LET r == yielded[k]
            t == tasks[completed[k]]
        IN  /\ \/ r.results \in IdLists /\ r.error = NoError
               \/ r.results = None /\ r.error # NoError
            /\ (r.error = NoError) <=> (t.st = "done")
            /\ r.search_provider = t.prov
            /\ r.query = terms
            /\ r.query = t.terms
            /\ succeeded(r) <=> (r.error = NoError)

C28_Witness ==
    /\ Len(yielded) = 2
    /\ yielded[1].error # NoError
    /\ yielded[2].error = NoError
    /\ yielded[2].results # <<>>
    /\ tasks[completed[2]].call = "get_subsearch_result_set"

\* C29: a call of clear_previous_results that finds previous_results
\* non-empty leaves it empty and changes nothing else: unfinished_providers
\* and client.providers stay as they were, and the generator of a round in
\* progress, its calls and what it has yielded are untouched.
C29_ClearOnlyPreviousResults ==
    [][(pc' = pc /\ previous_results # <<>> /\ previous_results' = <<>>) =>
          /\ unfinished_providers' = unfinished_providers
          /\ providers' = providers
          /\ tasks' = tasks
          /\ UNCHANGED <<kind, terms, completed, nyielded, idx, timer, outcome, yielded>>]_vars

C29_Witness ==
    /\ pc = "yielded"
    /\ previous_results = <<>>
    /\ Len(yielded) = 1
    /\ unfinished_providers # {}
    /\ \E i \in 1..Len(tasks) : tasks[i].st = "pending"

\* C23: the teardown never reports a cancelled call's CancelledError to the
\* consumer (nothing is yielded during the teardown, and an acknowledged
\* cancellation does not change the way the generator ends), and when the
\* generator has ended no call is left pending or half-cancelled, even when
\* a cancelled call ended with an error of its own.
C23_TeardownCancelsAll ==
    /\ [][pc = "cancelling" =>
             /\ yielded' = yielded
             /\ tasks'[idx].st = "cancelled" => outcome' = outcome]_vars
    /\ [](pc = "finished" =>
             \A i \in 1..Len(tasks) : tasks[i].st \in {"done", "failed", "cancelled"})

\* C30: in a legacy refine round no Result carries a timeout error, and when
\* the round has ended every provider whose call was still running when its
\* timeout elapsed has no Result in previous_search_results and is in
\* previous_search_providers_that_did_not_finish.
C30_LegacyTimeoutYieldsNothing ==
    /\ \A k \in 1..Len(yielded) : yielded[k].error # "TimeoutError"
    /\ pc = "finished" =>
          \A i \in 1..Len(tasks) :
              tasks[i].res = TimedOut =>
                  /\ tasks[i].prov \in unfinished_providers
                  /\ ResultsOf(previous_results, tasks[i].prov) = {}

\* C21: on a session shared by two tasks, two rounds are never in progress
\* at the same time (a round has ended before the other task's round
\* dispatches and resets the session), so previous_results never holds two
\* Results of one provider or Results of two different queries, and no
\* provider with a Result is in unfinished_providers.
C21_NoOverlappingRounds ==
    /\ ~(/\ pc \in {"waiting", "yielded", "abandoned", "cancelling"}
         /\ other.pc \in {"waiting", "yielded", "abandoned", "cancelling"})
    /\ \A p \in providers :
          /\ Cardinality(ResultsOf(previous_results, p)) <= 1
          /\ p \in unfinished_providers => ResultsOf(previous_results, p) = {}
    /\ \A i, j \in 1..Len(previous_results) :
          previous_results[i].query = previous_results[j].query

====
